---- MODULE Spec2Model ----
(***************************************************************************)
(* The three librosa scripts of the repository as one state machine:       *)
(*   beat_detection.py    two tempo estimates and their rounded average    *)
(*   mel_spectrograph.py  mel spectrograms computed and plotted in place   *)
(*   sound_util.py        analysers that return arrays, show_* renderers   *)
(* and sound_texture as a function applied to drawn arguments.             *)
(*                                                                         *)
(* A waveform is a sequence of analysis frames (one element per hop of     *)
(* samples); a frame is <<h, p>>, the amplitude of its sustained and of    *)
(* its transient content.  A matrix is a sequence of rows, each row a      *)
(* sequence over the time frames.  Files are existing, decodable audio,    *)
(* long enough for every analysis window.                                  *)
(***************************************************************************)
EXTENDS Integers, Sequences, FiniteSets, TLC

VARIABLES
  prog,          \* the script that runs
  args,          \* vars(parser.parse_args()): filename and the feature flags
  pc,            \* position in main / in the function main called
  err,           \* the exception that ended the run, "none" while there is none
  hop_length,    \* the module-level hop_length
  defined,       \* the local names of main that are bound
  y, sr,         \* the loaded waveform and its sampling rate
  y_harmonic, y_percussive,
  tempo1, tempo2, tempo,
  log_s, log_sh, log_sp, c, texture,
  out,           \* the output stream: the lines printed, each with the function printing it
  windows,       \* the plot windows shown, each with the function showing it
  trace,         \* the calls made, in order, each with its caller and its configuration
  tex_pc, tex_in, tex_out   \* sound_texture applied to drawn arguments

vars == <<prog, args, pc, err, hop_length, defined, y, sr, y_harmonic, y_percussive,
          tempo1, tempo2, tempo, log_s, log_sh, log_sp, c, texture,
          out, windows, trace, tex_pc, tex_in, tex_out>>

progvars == <<prog, args, pc, err, hop_length, defined, y, sr, y_harmonic, y_percussive,
              tempo1, tempo2, tempo, log_s, log_sh, log_sp, c, texture,
              out, windows, trace>>

texvars == <<tex_pc, tex_in, tex_out>>

---------------------------------------------------------------------------
(* Bounds of the model *)

\* frames of the longest waveform a run loads
MaxFrames == 9
\* tempo estimates are multiples of 1/TempoUnit BPM
TempoUnit == 2
\* rows of the largest log-power matrix sound_texture is applied to
MaxRows == 3
\* time frames of the largest log-power matrix sound_texture is applied to
MaxT == 10
\* num_coeff is drawn from -MaxCoeff .. MaxCoeff
MaxCoeff == 4
\* mel bands of a spectrogram (librosa's default is 128; at least the default num_coeff)
n_mels == 14
\* the tempo of the click track the estimates are compared with, in BPM
KnownTempo == 120
\* the tolerance around the known tempo, in BPM
Tolerance == 2

(* Program constants *)

SampleRate == 44100
ModuleHopLength == 1024
DefaultHopLength == 512
bins_per_octave == 36
n_chroma == 12
default_num_coeff == 13
amin_db == -100
top_db == 80
delta_width == 9

\* the amplitudes of a frame's sustained and of its transient content
Sustained == {0, 1, 2}
Transient == {0, 1}
Frames == Sustained \X Transient
\* a waveform repeats a pattern of two frames over its length
Repeat(p, n) == [t \in 1..n |-> p[((t - 1) % Len(p)) + 1]]
Waveforms == {Repeat(p, n) : p \in [1..2 -> Frames], n \in delta_width..MaxFrames}

\* estimates a run can report: silence, and the BPM around the known tempo
TempoGrid == {0, 1} \cup ((TempoUnit * (KnownTempo - Tolerance - 1)) ..
                          (TempoUnit * (KnownTempo + Tolerance + 1)))

None == "None"
Files == {"a.wav"}

NoFlags == [full_mel |-> FALSE, split_mel |-> FALSE, chroma |-> FALSE, texture |-> FALSE]

\* the command lines each parser accepts
ArgsOf(p) ==
  IF p = "beat_detection"
    THEN {[filename |-> f, flags |-> NoFlags] : f \in Files \cup {None}}
  ELSE IF p = "mel_spectrograph"
    THEN {[filename |-> f,
           flags |-> [NoFlags EXCEPT !.full_mel = a, !.split_mel = b]] :
             f \in Files \cup {None}, a \in BOOLEAN, b \in BOOLEAN}
  ELSE {[filename |-> f,
         flags |-> [full_mel |-> a, split_mel |-> b, chroma |-> d, texture |-> e]] :
           f \in Files \cup {None}, a \in BOOLEAN, b \in BOOLEAN, d \in BOOLEAN, e \in BOOLEAN}

---------------------------------------------------------------------------
(* Arithmetic *)

Max2(a, b) == IF a >= b THEN a ELSE b
Min2(a, b) == IF a <= b THEN a ELSE b

\* n / d rounded to the nearest integer, a tie upwards
RoundHalfUp(n, d) == (2 * n + d) \div (2 * d)

\* round(n / d) as Python 3 rounds: to the nearest integer, a tie to the even one
round(n, d) ==
  LET q == n \div d
      r == n - q * d
  IN  IF 2 * r < d THEN q
      ELSE IF 2 * r > d THEN q + 1
      ELSE IF q % 2 = 0 THEN q ELSE q + 1

\* round(tempo1 + tempo2 / 2) read as the sum, not halved
AverageNoHalving(t1, t2) == round(t1 + t2, TempoUnit)
\* the mean with a tie rounded upwards
AverageHalfUp(t1, t2) == RoundHalfUp(t1 + t2, 2 * TempoUnit)
\* round((tempo1 + tempo2) / 2), the estimates in 1/TempoUnit BPM
Average(t1, t2) == round(t1 + t2, 2 * TempoUnit)

\* f"{t:.1f}": the estimate in tenths of a BPM
Format1f(t) == round(10 * t, TempoUnit)

---------------------------------------------------------------------------
(* Matrices *)

RECURSIVE SeqMax(_)
SeqMax(s) == IF Len(s) = 1 THEN s[1] ELSE Max2(s[1], SeqMax(Tail(s)))

\* np.max of a matrix with at least one row and one column
MatMax(S) == SeqMax([b \in 1..Len(S) |-> SeqMax(S[b])])

NRows(S) == Len(S)
NCols(S) == Len(S[1])

\* S[:n] on the first axis, as Python slices
PySlice(S, n) ==
  LET k == IF n >= 0 THEN Min2(n, Len(S)) ELSE Max2(Len(S) + n, 0)
  IN  SubSeq(S, 1, k)

\* an array holds its values: every cell is computed once, when the array is made
array(M) == SubSeq([b \in 1..Len(M) |-> SubSeq(M[b], 1, Len(M[b]))], 1, Len(M))

\* np.vstack
vstack(ms) == ms[1] \o ms[2] \o ms[3]

---------------------------------------------------------------------------
(* librosa, on frames *)

\* librosa.effects.hpss: the sustained and the transient part, frame by frame
hpss(w) == << [t \in 1..Len(w) |-> <<w[t][1], 0>>],
              [t \in 1..Len(w) |-> <<0, w[t][2]>>] >>

\* librosa.feature.melspectrogram: power per mel band and frame; sustained content
\* falls in one band, transient content in all of them
melspectrogram(w, rate) ==
  array([b \in 1..n_mels |-> [t \in 1..Len(w) |->
     IF b = 1 THEN w[t][1] * w[t][1] + w[t][2] * w[t][2] ELSE w[t][2] * w[t][2]]])

\* 10 * log10(v) to the nearest dB, for v in 1..8
Log10x10 == <<0, 3, 5, 6, 7, 8, 8, 9>>
\* 10 * log10(max(amin, v)) with amin = 1e-10
Db(v) == IF v <= 0 THEN amin_db ELSE Log10x10[v]

\* log_spec = 10 * log10(max(amin, S)) - 10 * log10(max(amin, ref_value))
Referenced(S, ref_db) ==
  array([b \in 1..Len(S) |-> [t \in 1..Len(S[b]) |-> Db(S[b][t]) - ref_db]])
\* np.maximum(log_spec, floor)
Clip(log_spec, floor) ==
  array([b \in 1..Len(log_spec) |-> [t \in 1..Len(log_spec[b]) |->
     Max2(log_spec[b][t], floor)]])
\* librosa.power_to_db(S, ref=..., top_db=80), ref_value the value ref yields
power_to_db(S, ref_value) ==
  LET log_spec == Referenced(S, Db(ref_value))
  IN  Clip(log_spec, MatMax(log_spec) - top_db)

\* librosa.feature.chroma_cqt: energy per pitch class and frame, each frame scaled to
\* a maximum of 1 (in hundredths)
chroma_cqt(w, rate, bpo) ==
  LET e(k, t) == IF k = 1 THEN w[t][1] + w[t][2] ELSE w[t][2]
      m(t) == Max2(w[t][1] + w[t][2], w[t][2])
  IN  array([k \in 1..n_chroma |-> [t \in 1..Len(w) |->
         IF m(t) = 0 THEN 0 ELSE (100 * e(k, t)) \div m(t)]])

\* the sign of cos(pi * k * (2n + 1) / (2N)): the DCT-II basis, one bit per cosine
CosSign(k, n, N) ==
  LET m == (k * (2 * n + 1)) % (4 * N)
  IN  IF m < N \/ m > 3 * N THEN 1 ELSE IF m = N \/ m = 3 * N THEN 0 ELSE -1

RECURSIVE DctSum(_, _, _, _)
DctSum(S, k, t, n) ==
  IF n = 0 THEN 0
  ELSE S[n][t] * CosSign(k - 1, n - 1, Len(S)) + DctSum(S, k, t, n - 1)

\* scipy.fftpack.dct along the frequency axis
dct(S) == array([k \in 1..Len(S) |-> [t \in 1..Len(S[1]) |-> DctSum(S, k, t, Len(S))]])

\* librosa.feature.mfcc(S=log_S, n_mfcc=n): the first n rows of the transform
librosa_mfcc(S, n) == PySlice(dct(S), n)

\* the weights of the local regression over a window of delta_width frames: the
\* slope of the fitted line (order 1), the curvature of the fitted parabola (order 2),
\* each up to its positive normalisation
HalfWidth == delta_width \div 2
Weight(order, k) == IF order = 1 THEN k ELSE 3 * k * k - HalfWidth * (HalfWidth + 1)

RECURSIVE WindowSum(_, _, _, _)
WindowSum(x, u, order, k) ==
  IF k > HalfWidth THEN 0
  ELSE Weight(order, k) * x[u + k] + WindowSum(x, u, order, k + 1)

\* librosa.feature.delta(data, width=9, order=order, mode="interp") on data whose
\* rows have at least delta_width frames: same shape; near an edge the fit of the
\* outermost whole window is used
delta(data, order) ==
  array([k \in 1..Len(data) |->
     LET x == data[k]
         T == Len(x)
     IN  [t \in 1..T |->
            WindowSum(x, Min2(Max2(t, HalfWidth + 1), T - HalfWidth), order, -HalfWidth)]])

---------------------------------------------------------------------------
(* sound_util.py: the analysers *)

\* mel_spectrograph(y, sr) -> S, log_S
mel_spectrograph(w, rate) ==
  LET S == melspectrogram(w, rate)
  IN  <<S, power_to_db(S, MatMax(S))>>

\* mel_spectrograph_by_source with one reference for both matrices
mel_spectrograph_by_source_shared_ref(wh, wp, rate) ==
  LET S_harmonic == melspectrogram(wh, rate)
      S_percussive == melspectrogram(wp, rate)
      ref == Max2(MatMax(S_harmonic), MatMax(S_percussive))
  IN  <<S_harmonic, S_percussive,
        power_to_db(S_harmonic, ref), power_to_db(S_percussive, ref)>>

\* mel_spectrograph_by_source(y_harmonic, y_percussive, sr) -> S_h, S_p, log_Sh, log_Sp
mel_spectrograph_by_source(wh, wp, rate) ==
  LET S_harmonic == melspectrogram(wh, rate)
      S_percussive == melspectrogram(wp, rate)
  IN  <<S_harmonic, S_percussive,
        power_to_db(S_harmonic, MatMax(S_harmonic)),
        power_to_db(S_percussive, MatMax(S_percussive))>>

\* chromagram(y, sr)
chromagram(w, rate) == chroma_cqt(w, rate, bins_per_octave)

Returns(value) == [raised |-> "none", value |-> value]
Raises(exception) == [raised |-> exception, value |-> <<>>]

\* sound_texture stacking the deltas in the other order
sound_texture_swapped(log_S, num_coeff) ==
  LET mfcc == librosa_mfcc(log_S, num_coeff)
      delta_mfcc == delta(mfcc, 1)
      delta2_mfcc == delta(mfcc, 2)
  IN  IF NCols(log_S) < delta_width THEN Raises("ParameterError")
      ELSE Returns(<<mfcc, delta_mfcc, delta2_mfcc, vstack(<<mfcc, delta2_mfcc, delta_mfcc>>)>>)

\* sound_texture(log_S, num_coeff) -> mfcc, delta_mfcc, delta2_mfcc, M
\* librosa.feature.delta raises when the window exceeds the number of frames
sound_texture(log_S, num_coeff) ==
  LET mfcc == librosa_mfcc(log_S, num_coeff)
      delta_mfcc == delta(mfcc, 1)
      delta2_mfcc == delta(mfcc, 2)
  IN  IF NCols(log_S) < delta_width THEN Raises("ParameterError")
      ELSE Returns(<<mfcc, delta_mfcc, delta2_mfcc, vstack(<<mfcc, delta_mfcc, delta2_mfcc>>)>>)

---------------------------------------------------------------------------
(* The state after the interpreter has imported the script *)

Progs == {"beat_detection", "mel_spectrograph", "sound_util"}

Call(fn, by, rate, hop) == [fn |-> fn, by |-> by, sr |-> rate, hop |-> hop]
Line(by, text, val) == [by |-> by, text |-> text, val |-> val]
Window(by, title) == [by |-> by, title |-> title]

TexIdle ==
  /\ tex_pc = "idle"
  /\ tex_in = [log_S |-> <<>>, num_coeff |-> 0]
  /\ tex_out = Returns(<<>>)

ProgStart(p, a) ==
  /\ prog = p
  /\ args = a
  /\ err = "none"
  /\ hop_length = ModuleHopLength
  /\ defined = {}
  /\ y = <<>>
  /\ sr = 0
  /\ y_harmonic = <<>>
  /\ y_percussive = <<>>
  /\ tempo1 = -1
  /\ tempo2 = -1
  /\ tempo = -1
  /\ log_s = <<>>
  /\ log_sh = <<>>
  /\ log_sp = <<>>
  /\ c = <<>>
  /\ texture = <<>>
  /\ out = <<>>
  /\ windows = <<>>
  /\ trace = <<>>

Init ==
  /\ \E p \in Progs : \E a \in ArgsOf(p) : ProgStart(p, a)
  /\ pc = "parse"
  /\ TexIdle

---------------------------------------------------------------------------
(* main, the part the three scripts share *)

\* parser.parse_args(): sound_util declares --filename required=True
parse_args ==
  /\ pc = "parse"
  /\ IF prog = "sound_util" /\ args.filename = None
       THEN /\ err' = "SystemExit"
            /\ pc' = "exit"
       ELSE /\ err' = err
            /\ pc' = "filename"
  /\ UNCHANGED <<prog, args, hop_length, defined, y, sr, y_harmonic, y_percussive,
                 tempo1, tempo2, tempo, log_s, log_sh, log_sp, c, texture,
                 out, windows, trace>>
  /\ UNCHANGED texvars

\* if filename is not None: print(f"Filename: {filename}")
main_filename ==
  /\ pc = "filename"
  /\ IF args.filename # None
       THEN /\ out' = Append(out, Line("main", "Filename", 0))
            /\ pc' = "load"
       ELSE /\ out' = out
            /\ pc' = IF prog = "beat_detection" THEN "done" ELSE "full_mel"
  /\ UNCHANGED <<prog, args, err, hop_length, defined, y, sr, y_harmonic, y_percussive,
                 tempo1, tempo2, tempo, log_s, log_sh, log_sp, c, texture,
                 windows, trace>>
  /\ UNCHANGED texvars

\* y, sr = librosa.load(filename, sr=44100), in main or in beat_detection
load ==
  /\ pc = "load"
  /\ \E w \in Waveforms : y' = w
  /\ sr' = SampleRate
  /\ defined' = defined \cup {"y", "sr"}
  /\ trace' = Append(trace, Call("load",
                 IF prog = "beat_detection" THEN "beat_detection" ELSE "main",
                 SampleRate, 0))
  /\ pc' = IF prog = "beat_detection" THEN "beat_track_1" ELSE "full_mel"
  /\ UNCHANGED <<prog, args, err, hop_length, y_harmonic, y_percussive,
                 tempo1, tempo2, tempo, log_s, log_sh, log_sp, c, texture,
                 out, windows>>
  /\ UNCHANGED texvars

\* an exception ends the run
Raise(exception) ==
  /\ err' = exception
  /\ pc' = "exit"
  /\ UNCHANGED <<prog, args, hop_length, defined, y, sr, y_harmonic, y_percussive,
                 tempo1, tempo2, tempo, log_s, log_sh, log_sp, c, texture,
                 out, windows, trace>>

\* a feature block reads y before main has bound it
NameError ==
  /\ err' = "NameError"
  /\ pc' = "exit"
  /\ UNCHANGED <<prog, args, hop_length, defined, y, sr, y_harmonic, y_percussive,
                 tempo1, tempo2, tempo, log_s, log_sh, log_sp, c, texture,
                 out, windows, trace>>

\* the flag of a feature block is not set
Skip(next) ==
  /\ pc' = next
  /\ UNCHANGED <<prog, args, err, hop_length, defined, y, sr, y_harmonic, y_percussive,
                 tempo1, tempo2, tempo, log_s, log_sh, log_sp, c, texture,
                 out, windows, trace>>

---------------------------------------------------------------------------
(* beat_detection.py *)

\* tempo1, _ = librosa.beat.beat_track(y=y, sr=sr, hop_length=hop_length); print
beat_track_entire ==
  /\ pc = "beat_track_1"
  /\ \E t \in TempoGrid :
       /\ tempo1' = t
       /\ out' = Append(out, Line("beat_detection", "entire signal", Format1f(t)))
  /\ trace' = Append(trace, Call("beat_track", "beat_detection", sr, hop_length))
  /\ pc' = "hpss"
  /\ UNCHANGED <<prog, args, err, hop_length, defined, y, sr, y_harmonic, y_percussive,
                 tempo2, tempo, log_s, log_sh, log_sp, c, texture, windows>>
  /\ UNCHANGED texvars

\* _, y_percussive = librosa.effects.hpss(y)
beat_hpss ==
  /\ pc = "hpss"
  /\ y_percussive' = hpss(y)[2]
  /\ defined' = defined \cup {"y_percussive"}
  /\ trace' = Append(trace, Call("hpss", "beat_detection", 0, 0))
  /\ pc' = "beat_track_2"
  /\ UNCHANGED <<prog, args, err, hop_length, y, sr, y_harmonic,
                 tempo1, tempo2, tempo, log_s, log_sh, log_sp, c, texture,
                 out, windows>>
  /\ UNCHANGED texvars

\* tempo2, _ = librosa.beat.beat_track(y=y_percussive, sr=sr); print
beat_track_percussive ==
  /\ pc = "beat_track_2"
  /\ \E t \in TempoGrid :
       /\ tempo2' = t
       /\ out' = Append(out, Line("beat_detection", "percussive signal", Format1f(t)))
  /\ trace' = Append(trace, Call("beat_track", "beat_detection", sr, DefaultHopLength))
  /\ pc' = "average"
  /\ UNCHANGED <<prog, args, err, hop_length, defined, y, sr, y_harmonic, y_percussive,
                 tempo1, tempo, log_s, log_sh, log_sp, c, texture, windows>>
  /\ UNCHANGED texvars

\* tempo = round((tempo1 + tempo2) / 2); print(f"Average bpm: {tempo}")
beat_average ==
  /\ pc = "average"
  /\ tempo' = Average(tempo1, tempo2)
  /\ out' = Append(out, Line("beat_detection", "Average bpm", tempo'))
  /\ pc' = "done"
  /\ UNCHANGED <<prog, args, err, hop_length, defined, y, sr, y_harmonic, y_percussive,
                 tempo1, tempo2, log_s, log_sh, log_sp, c, texture, windows, trace>>
  /\ UNCHANGED texvars

---------------------------------------------------------------------------
(* mel_spectrograph.py: each function computes and plots *)

\* if args["full_mel"]: mel_spectrograph(y, sr)
script_full_mel ==
  /\ pc = "full_mel"
  /\ prog = "mel_spectrograph"
  /\ IF ~args.flags.full_mel THEN Skip("split_mel")
     ELSE IF "y" \notin defined THEN NameError
     ELSE /\ trace' = Append(trace, Call("mel_spectrograph", "main", sr, 0))
          /\ windows' = Append(windows, Window("mel_spectrograph", "mel power spectrogram"))
          /\ pc' = "split_mel"
          /\ UNCHANGED <<prog, args, err, hop_length, defined, y, sr, y_harmonic,
                         y_percussive, tempo1, tempo2, tempo, log_s, log_sh, log_sp,
                         c, texture, out>>
  /\ UNCHANGED texvars

\* if args["split_mel"]: _, _ = mel_spectrograph_by_source(y, sr)
script_split_mel ==
  /\ pc = "split_mel"
  /\ prog = "mel_spectrograph"
  /\ IF ~args.flags.split_mel THEN Skip("done")
     ELSE IF "y" \notin defined THEN NameError
     ELSE /\ trace' = Append(trace, Call("mel_spectrograph_by_source", "main", sr, 0))
          /\ windows' = Append(windows, Window("mel_spectrograph_by_source",
                                               "mel power spectrogram by source"))
          /\ pc' = "done"
          /\ UNCHANGED <<prog, args, err, hop_length, defined, y, sr, y_harmonic,
                         y_percussive, tempo1, tempo2, tempo, log_s, log_sh, log_sp,
                         c, texture, out>>
  /\ UNCHANGED texvars

---------------------------------------------------------------------------
(* sound_util.py: main computes with an analyser, then renders with its show_* *)

\* plt.show() at the end of a show_* function
Show(by, title, next) ==
  /\ windows' = Append(windows, Window(by, title))
  /\ trace' = Append(trace, Call(by, "main", sr, 0))
  /\ pc' = next
  /\ UNCHANGED <<prog, args, err, hop_length, defined, y, sr, y_harmonic, y_percussive,
                 tempo1, tempo2, tempo, log_s, log_sh, log_sp, c, texture, out>>
  /\ UNCHANGED texvars

\* if args["full_mel"]: s, log_s = mel_spectrograph(y, sr)
full_mel ==
  /\ pc = "full_mel"
  /\ prog = "sound_util"
  /\ IF ~args.flags.full_mel THEN Skip("split_mel")
     ELSE IF "y" \notin defined THEN NameError
     ELSE /\ log_s' = mel_spectrograph(y, sr)[2]
          /\ defined' = defined \cup {"s", "log_s"}
          /\ trace' = Append(trace, Call("mel_spectrograph", "main", sr, 0))
          /\ pc' = "show_full_mel"
          /\ UNCHANGED <<prog, args, err, hop_length, y, sr, y_harmonic, y_percussive,
                         tempo1, tempo2, tempo, log_sh, log_sp, c, texture, out, windows>>
  /\ UNCHANGED texvars

\* show_mel_spectrograph(log_s, sr)
show_mel_spectrograph ==
  /\ pc = "show_full_mel"
  /\ Show("show_mel_spectrograph", "mel power spectrogram", "split_mel")

\* the split_mel block with y overwritten by its harmonic part
split_mel_overwrites_y ==
  /\ pc = "split_mel"
  /\ prog = "sound_util"
  /\ IF ~args.flags.split_mel THEN Skip("chroma")
     ELSE IF "y" \notin defined THEN NameError
     ELSE /\ y' = hpss(y)[1]
          /\ y_harmonic' = hpss(y)[1]
          /\ y_percussive' = hpss(y)[2]
          /\ log_sh' = mel_spectrograph_by_source(y_harmonic', y_percussive', sr)[3]
          /\ log_sp' = mel_spectrograph_by_source(y_harmonic', y_percussive', sr)[4]
          /\ defined' = defined \cup {"y_harmonic", "y_percussive", "log_sh", "log_sp"}
          /\ trace' = trace \o <<Call("hpss", "main", 0, 0),
                                 Call("mel_spectrograph_by_source", "main", sr, 0)>>
          /\ pc' = "show_split_mel"
          /\ UNCHANGED <<prog, args, err, hop_length, sr,
                         tempo1, tempo2, tempo, log_s, c, texture, out, windows>>
  /\ UNCHANGED texvars

\* if args["split_mel"]: y_harmonic, y_percussive = librosa.effects.hpss(y)
\*                       _, _, log_sh, log_sp = mel_spectrograph_by_source(...)
split_mel ==
  /\ pc = "split_mel"
  /\ prog = "sound_util"
  /\ IF ~args.flags.split_mel THEN Skip("chroma")
     ELSE IF "y" \notin defined THEN NameError
     ELSE /\ y_harmonic' = hpss(y)[1]
          /\ y_percussive' = hpss(y)[2]
          /\ log_sh' = mel_spectrograph_by_source(y_harmonic', y_percussive', sr)[3]
          /\ log_sp' = mel_spectrograph_by_source(y_harmonic', y_percussive', sr)[4]
          /\ defined' = defined \cup {"y_harmonic", "y_percussive", "log_sh", "log_sp"}
          /\ trace' = trace \o <<Call("hpss", "main", 0, 0),
                                 Call("mel_spectrograph_by_source", "main", sr, 0)>>
          /\ pc' = "show_split_mel"
          /\ UNCHANGED <<prog, args, err, hop_length, y, sr,
                         tempo1, tempo2, tempo, log_s, c, texture, out, windows>>
  /\ UNCHANGED texvars

\* show_mel_spectrograph_by_source(log_sh, log_sp, sr)
show_mel_spectrograph_by_source ==
  /\ pc = "show_split_mel"
  /\ Show("show_mel_spectrograph_by_source", "mel power spectrogram by source", "chroma")

\* the chroma block computing the chromagram of the whole waveform
chroma_of_whole_signal ==
  /\ pc = "chroma"
  /\ IF ~args.flags.chroma THEN Skip("texture")
     ELSE IF "y" \notin defined THEN NameError
     ELSE /\ y_harmonic' = hpss(y)[1]
          /\ c' = chromagram(y, sr)
          /\ defined' = defined \cup {"y_harmonic", "c"}
          /\ trace' = trace \o <<Call("hpss", "main", 0, 0),
                                 Call("chromagram", "main", sr, 0)>>
          /\ pc' = "show_chroma"
          /\ UNCHANGED <<prog, args, err, hop_length, y, sr, y_percussive,
                         tempo1, tempo2, tempo, log_s, log_sh, log_sp, texture,
                         out, windows>>
  /\ UNCHANGED texvars

\* if args["chroma"]: y_harmonic, _ = librosa.effects.hpss(y); c = chromagram(y_harmonic, sr)
chroma ==
  /\ pc = "chroma"
  /\ IF ~args.flags.chroma THEN Skip("texture")
     ELSE IF "y" \notin defined THEN NameError
     ELSE /\ y_harmonic' = hpss(y)[1]
          /\ c' = chromagram(y_harmonic', sr)
          /\ defined' = defined \cup {"y_harmonic", "c"}
          /\ trace' = trace \o <<Call("hpss", "main", 0, 0),
                                 Call("chromagram", "main", sr, 0)>>
          /\ pc' = "show_chroma"
          /\ UNCHANGED <<prog, args, err, hop_length, y, sr, y_percussive,
                         tempo1, tempo2, tempo, log_s, log_sh, log_sp, texture,
                         out, windows>>
  /\ UNCHANGED texvars

\* show_chromagram(c, sr)
show_chromagram ==
  /\ pc = "show_chroma"
  /\ Show("show_chromagram", "Chromagram", "texture")

\* if args["texture"]: _, log_s = mel_spectrograph(y, sr)
\*                     mfcc, delta_mfcc, delta2_mfcc, _ = sound_texture(log_s)
texture_block ==
  /\ pc = "texture"
  /\ IF ~args.flags.texture THEN Skip("done")
     ELSE IF "y" \notin defined THEN NameError
     ELSE IF sound_texture(mel_spectrograph(y, sr)[2], default_num_coeff).raised # "none"
       THEN Raise(sound_texture(mel_spectrograph(y, sr)[2], default_num_coeff).raised)
     ELSE /\ log_s' = mel_spectrograph(y, sr)[2]
          /\ texture' = SubSeq(sound_texture(log_s', default_num_coeff).value, 1, 3)
          /\ defined' = defined \cup {"log_s", "mfcc", "delta_mfcc", "delta2_mfcc"}
          /\ trace' = trace \o <<Call("mel_spectrograph", "main", sr, 0),
                                 Call("sound_texture", "main", 0, 0)>>
          /\ pc' = "show_texture"
          /\ UNCHANGED <<prog, args, err, hop_length, y, sr, y_harmonic, y_percussive,
                         tempo1, tempo2, tempo, log_sh, log_sp, c, out, windows>>
  /\ UNCHANGED texvars

\* show_sound_texture(mfcc, delta_mfcc, delta2_mfcc, sr)
show_sound_texture ==
  /\ pc = "show_texture"
  /\ Show("show_sound_texture", "MFCC", "done")

---------------------------------------------------------------------------
(* The scripts *)

Next ==
  \/ parse_args
  \/ main_filename
  \/ load
  \/ beat_track_entire
  \/ beat_hpss
  \/ beat_track_percussive
  \/ beat_average
  \/ script_full_mel
  \/ script_split_mel
  \/ full_mel
  \/ show_mel_spectrograph
  \/ split_mel
  \/ show_mel_spectrograph_by_source
  \/ chroma
  \/ show_chromagram
  \/ texture_block
  \/ show_sound_texture

Spec == Init /\ [][Next]_vars

---------------------------------------------------------------------------
(* sound_texture applied to the log-power matrix of any audio of at least one    *)
(* delta window, with any num_coeff                                              *)

\* a power matrix of the given shape
PowerMatrix(rows, T, seed) ==
  [b \in 1..rows |-> [t \in 1..T |-> (seed * b + (seed + 1) * t * t) % 9]]

LogPowerMatrices ==
  {power_to_db(PowerMatrix(r, T, k), MatMax(PowerMatrix(r, T, k))) :
     r \in 1..MaxRows, T \in delta_width..MaxT, k \in {1, 2, 3}}

TexInit ==
  /\ ProgStart("none", [filename |-> None, flags |-> NoFlags])
  /\ pc = "idle"
  /\ tex_pc = "call"
  /\ tex_in \in [log_S : LogPowerMatrices, num_coeff : (-MaxCoeff)..MaxCoeff]
  /\ tex_out = Returns(<<>>)

\* the call sound_texture(log_S, num_coeff)
call_sound_texture ==
  /\ tex_pc = "call"
  /\ tex_out' = sound_texture(tex_in.log_S, tex_in.num_coeff)
  /\ tex_pc' = "returned"
  /\ UNCHANGED tex_in
  /\ UNCHANGED progvars

TexNext == call_sound_texture

TexSpec == TexInit /\ [][TexNext]_vars

---------------------------------------------------------------------------
(* Properties *)

Abs(x) == IF x < 0 THEN -x ELSE x

AverageDone == prog = "beat_detection" /\ pc = "done" /\ args.filename # None

\* tempo is an integer within 0.5 of (tempo1 + tempo2) / 2
Nearest == Abs(2 * TempoUnit * tempo - (tempo1 + tempo2)) <= TempoUnit
\* (tempo1 + tempo2) / 2 lies halfway between two integers
Tie == (tempo1 + tempo2) % (2 * TempoUnit) = TempoUnit

\* C1, as claimed: the reported average is the mean of the two estimates rounded to
\* the nearest integer, and a mean halfway between two integers is rounded up, not
\* to the even neighbour.
C1_TieRoundedUp ==
  AverageDone =>
    /\ Nearest
    /\ Tie => 2 * TempoUnit * tempo = tempo1 + tempo2 + TempoUnit

\* C1, amended: the reported average is the mean of the two estimates rounded to the
\* nearest integer (within 0.5 of the mean), and a mean halfway between two integers
\* is rounded to the even one.
C1_TieRoundedToEven ==
  AverageDone =>
    /\ Nearest
    /\ Tie => tempo % 2 = 0

\* a mean of 120.5 reported as 120
C1_Witness ==
  /\ AverageDone
  /\ Tie
  /\ 2 * TempoUnit * tempo < tempo1 + tempo2

\* an estimate is >= 0 and within the tolerance of the known tempo
EstimateWithinTolerance(t) ==
  t >= 0 /\ Abs(t - TempoUnit * KnownTempo) <= TempoUnit * Tolerance

\* C2: when both estimates are >= 0 and within the tolerance of the known tempo, the
\* reported rounded average is >= 0 and within the same tolerance.
C2_AverageWithinTolerance ==
  (AverageDone /\ EstimateWithinTolerance(tempo1) /\ EstimateWithinTolerance(tempo2)) =>
    (tempo >= 0 /\ Abs(tempo - KnownTempo) <= Tolerance)

\* one estimate at the edge of the tolerance, the other just inside it
C2_Witness ==
  /\ AverageDone
  /\ tempo1 = TempoUnit * (KnownTempo + Tolerance)
  /\ tempo2 = tempo1 - 1
  /\ tempo = KnownTempo + Tolerance

BeatTracks == SelectSeq(trace, LAMBDA e : e.fn = "beat_track")

\* C3: every tempo estimation of a run is made with the same sampling rate and with
\* the module-level hop_length.
C3_SameConfiguration ==
  \A i \in 1..Len(BeatTracks) :
    /\ BeatTracks[i].sr = BeatTracks[1].sr
    /\ BeatTracks[i].hop = hop_length

\* C4: a run without a filename loads nothing, analyses nothing, renders nothing and
\* ends without an error, whatever the script and the feature flags.
C4_NoFilenameNoError ==
  args.filename = None =>
    /\ err = "none"
    /\ trace = <<>>
    /\ windows = <<>>

\* the maximum of L is 0 dB and every cell lies between -top_db and 0
ReferencedToOwnMaximum(L) ==
  /\ MatMax(L) = 0
  /\ \A b \in 1..Len(L) : \A t \in 1..Len(L[b]) : -top_db <= L[b][t] /\ L[b][t] <= 0

\* C5: every log-power matrix mel_spectrograph and mel_spectrograph_by_source return
\* has maximum 0 dB and cells between -80 dB and 0, the harmonic and the percussive
\* matrix each by its own maximum.
C5_LogPowerMaximumIsZero ==
  /\ "log_s" \in defined => ReferencedToOwnMaximum(log_s)
  /\ "log_sh" \in defined => ReferencedToOwnMaximum(log_sh)
  /\ "log_sp" \in defined => ReferencedToOwnMaximum(log_sp)

\* an all-zero harmonic power matrix beside a percussive one with power and a
\* clipped cell
C5_Witness ==
  /\ "log_s" \in defined
  /\ "log_sh" \in defined
  /\ MatMax(melspectrogram(y_harmonic, sr)) = 0
  /\ MatMax(melspectrogram(y_percussive, sr)) > 0
  /\ \E t \in 1..Len(log_sp[1]) : log_sp[1][t] = -top_db

Returned == tex_pc = "returned"
\* every row of M has T entries
RowsOfLength(M, T) == \A k \in 1..Len(M) : Len(M[k]) = T

\* sound_texture returned arrays of n rows (the stack three times as many) over the
\* time frames of log_S, and the stack holds mfcc, delta and delta2 in that order
TextureShape(n) ==
  /\ tex_out.raised = "none"
  /\ Len(tex_out.value) = 4
  /\ LET T == NCols(tex_in.log_S)
         mfcc == tex_out.value[1]
         delta_mfcc == tex_out.value[2]
         delta2_mfcc == tex_out.value[3]
         M == tex_out.value[4]
     IN  /\ Len(mfcc) = n /\ Len(delta_mfcc) = n /\ Len(delta2_mfcc) = n
         /\ RowsOfLength(mfcc, T) /\ RowsOfLength(delta_mfcc, T)
         /\ RowsOfLength(delta2_mfcc, T)
         /\ Len(M) = 3 * n
         /\ \A k \in 1..n :
              M[k] = mfcc[k] /\ M[n + k] = delta_mfcc[k] /\ M[2 * n + k] = delta2_mfcc[k]

C7_NonPositiveNumCoeffRaises ==
  (Returned /\ tex_in.num_coeff <= 0) =>
    (tex_out.raised = "InvalidParameterError" /\ tex_out.value = <<>>)

RendererLayer == {"main", "show_mel_spectrograph", "show_mel_spectrograph_by_source",
                  "show_chromagram", "show_sound_texture"}

\* C8: every printed line and every plot window comes from main or a show_*
\* function, none from an analysis function.
C8_OnlyRendererPrintsAndPlots ==
  /\ \A i \in 1..Len(out) : out[i].by \in RendererLayer
  /\ \A i \in 1..Len(windows) : windows[i].by \in RendererLayer

Fns(seq) == [i \in 1..Len(seq) |-> seq[i].fn]
Count(fn) == Len(SelectSeq(trace, LAMBDA e : e.fn = fn))
If(b, seq) == IF b THEN seq ELSE <<>>
Num(b) == IF b THEN 1 ELSE 0
ShowFns == {"show_mel_spectrograph", "show_mel_spectrograph_by_source",
            "show_chromagram", "show_sound_texture"}
AnalyserOf(show) ==
  CASE show = "show_mel_spectrograph" -> "mel_spectrograph"
    [] show = "show_mel_spectrograph_by_source" -> "mel_spectrograph_by_source"
    [] show = "show_chromagram" -> "chromagram"
    [] show = "show_sound_texture" -> "sound_texture"

\* C10: a sound_util run with a filename loads once, first; renders the requested
\* features once each in the order full_mel, split_mel, chroma, texture, each right
\* after its analyser ran, and nothing else; the chromagram is that of the harmonic
\* part of the loaded waveform and the texture that of its log-power mel matrix.
C10_OneWayPipeline ==
  (prog = "sound_util" /\ pc = "done") =>
    LET f == args.flags
    IN  /\ Count("load") = 1 /\ trace[1].fn = "load"
        /\ Fns(SelectSeq(trace, LAMBDA e : e.fn \in ShowFns)) =
             If(f.full_mel, <<"show_mel_spectrograph">>)
             \o If(f.split_mel, <<"show_mel_spectrograph_by_source">>)
             \o If(f.chroma, <<"show_chromagram">>)
             \o If(f.texture, <<"show_sound_texture">>)
        /\ [i \in 1..Len(windows) |-> windows[i].by] =
             Fns(SelectSeq(trace, LAMBDA e : e.fn \in ShowFns))
        /\ \A i \in 1..Len(trace) :
             trace[i].fn \in ShowFns => trace[i - 1].fn = AnalyserOf(trace[i].fn)
        /\ Count("mel_spectrograph") = Num(f.full_mel) + Num(f.texture)
        /\ Count("mel_spectrograph_by_source") = Num(f.split_mel)
        /\ Count("chromagram") = Num(f.chroma)
        /\ Count("sound_texture") = Num(f.texture)
        /\ Count("hpss") = Num(f.split_mel) + Num(f.chroma)
        /\ f.chroma => c = chromagram(hpss(y)[1], sr)
        /\ f.texture =>
             texture =
               SubSeq(sound_texture(mel_spectrograph(y, sr)[2], default_num_coeff).value, 1, 3)

\* chroma and texture requested without full_mel, on a waveform whose transient
\* content would change the chromagram
C10_Witness ==
  /\ prog = "sound_util"
  /\ pc = "done"
  /\ args.flags = [full_mel |-> FALSE, split_mel |-> TRUE, chroma |-> TRUE, texture |-> TRUE]
  /\ c # chromagram(y, sr)

====
